---- MODULE Spec2Model ----
(***************************************************************************)
(* The tabular loaders of the airline-merger data scripts:                 *)
(*   extract_columns_from_zip  (data_utils.py, download_db1b.py)           *)
(*   _is_gzip, _load_r_file, _load_table_any  (data_utils.py)              *)
(* Files are sequences of lines, lines are sequences of characters; the    *)
(* delimited-text reader splits them as pandas.read_csv does.              *)
(* The batch script of download_db1b.py:                                   *)
(*   build_db1b_url, download_file, process_quarter, main                  *)
(* The network is unreliable (exceptions, error statuses, broken streams); *)
(* the local disk and the ancillary files are taken to be sound.           *)
(***************************************************************************)
EXTENDS Integers, Sequences, FiniteSets, TLC

VARIABLES
    pc,                \* position of the running call
    handles,           \* operating-system file handles currently open
    peak,              \* largest number of handles open at once so far
    fh,                \* the text stream of the with-block: [open, pos]
    df,                \* the parsed table
    result,            \* the returned table
    error,             \* the raised exception
    reads,             \* parse attempts so far: <<member or path, separator>>
    archive,           \* ZIP archive: sequence of [name, data]
    required_columns,  \* argument of extract_columns_from_zip
    data_file,         \* name of the chosen archive member
    path,              \* argument of _load_table_any: [name, ext]
    file,              \* the bytes at path: [gz, body]
    exc,               \* the exception caught in _load_r_file
    mpc,               \* position of main / process_quarter / download_file
    args,              \* parsed command line: [start_year, end_year, quarters]
    year,              \* loop variable of `for year in years`
    qidx,              \* position of `for quarter in parsed.quarters`
    disk,              \* out_dir: the ZIP file of each (year, quarter), or absent
    csvs,              \* out_proc_dir: the pairs whose CSV has been written
    attempts,          \* the process_quarter calls so far, in order
    reported,          \* the pairs whose failure main printed, in order
    url_idx,           \* position of `for url in urls`
    tried,             \* this download_file call: one record per request
    ex,                \* the exception main's handler has caught
    faults             \* network faults so far

loader_vars == <<pc, handles, peak, fh, df, result, error, reads, archive,
                 required_columns, data_file, path, file, exc>>

main_vars == <<mpc, args, year, qidx, disk, csvs, attempts, reported, url_idx,
               tried, ex, faults>>

vars == <<loader_vars, main_vars>>

----------------------------------------------------------------------------
(* Bounds of the model *)

MaxCols == 2        \* columns of a generated delimited file
MaxRows == 2        \* data rows of a generated delimited file
MaxReq == 2         \* length of required_columns
MaxEntries == 2     \* entries of a ZIP archive
MaxObjs == 2        \* objects in a deserialized R file

----------------------------------------------------------------------------
(* Characters, strings and the text files the loaders are given *)

Digits == <<"0", "1", "2", "3", "4", "5", "6", "7", "8", "9">>
D(i) == Digits[i + 1]

Letters == {"a", "A", "b"}
Names == {<<c>> : c \in Letters}

Max(a, b) == IF a >= b THEN a ELSE b
Min(S) == CHOOSE x \in S : \A y \in S : x <= y

\* str.upper()
upper_char(c) == CASE c = "a" -> "A" [] c = "b" -> "B" [] OTHER -> c
upper(s) == [i \in 1..Len(s) |-> upper_char(s[i])]

\* sep.join(parts)
RECURSIVE join(_, _)
join(parts, sep) ==
    IF Len(parts) = 0 THEN <<>>
    ELSE IF Len(parts) = 1 THEN parts[1]
    ELSE parts[1] \o sep \o join(Tail(parts), sep)

\* line.split(sep) for a one-character separator
RECURSIVE split(_, _)
split(s, sep) ==
    LET at == {i \in 1..Len(s) : s[i] = sep}
    IN  IF at = {} THEN <<s>>
        ELSE <<SubSeq(s, 1, Min(at) - 1)>>
                 \o split(SubSeq(s, Min(at) + 1, Len(s)), sep)

Other(delim) == IF delim = "," THEN "|" ELSE ","

\* The value at row r, column c; a stray cell holds the other delimiter.
Cell(r, c, stray, delim) ==
    IF stray THEN <<D(r), Other(delim), D(c)>> ELSE <<D(r), D(c)>>

\* A delimited text file: header line, then nrows lines; row `stray` (if
\* any) has the other delimiter inside its first cell.
DelimitedText(delim, header, nrows, stray) ==
    <<join(header, <<delim>>)>> \o
    [r \in 1..nrows |->
        join([c \in 1..Len(header) |-> Cell(r, c, r = stray /\ c = 1, delim)],
             <<delim>>)]

Headers == UNION {[1..n -> Names] : n \in 1..MaxCols}

\* The empty file, comma-delimited files, and pipe-delimited files in which
\* one row may carry a comma inside a cell.
Texts ==
    {<<>>}
    \cup {DelimitedText(",", h, n, 0) : h \in Headers, n \in 0..MaxRows}
    \cup {DelimitedText("|", h, n, k) :
             h \in Headers, n \in 0..MaxRows, k \in 0..MaxRows}

----------------------------------------------------------------------------
(* pandas.read_csv on a stream of lines *)

NaN == <<"NaN">>
NoFrame == [columns |-> <<>>, values |-> <<>>]
Failure(e) == [ok |-> FALSE, error |-> e, frame |-> NoFrame]
Success(t) == [ok |-> TRUE, error |-> "", frame |-> t]

\* Duplicate header names are renamed x, x.1, x.2, ...
mangle_dupe_cols(header) ==
    [i \in 1..Len(header) |->
        LET n == Cardinality({j \in 1..(i - 1) : header[j] = header[i]})
        IN  IF n = 0 THEN header[i] ELSE header[i] \o <<".", D(n)>>]

\* The C tokenizer: the header fixes the columns; the first data row may be
\* wider (its extra leading fields become the index); a later row wider than
\* that is "Expected n fields in line k, saw m"; narrower rows are padded.
read_csv(lines, sep) ==
    IF Len(lines) = 0 THEN Failure("EmptyDataError")
    ELSE
    LET f == [k \in 1..Len(lines) |-> split(lines[k], sep)]
        nrows == Len(lines) - 1
        width == IF nrows = 0 THEN Len(f[1]) ELSE Max(Len(f[1]), Len(f[2]))
        lead == width - Len(f[1])
        at(k, j) == IF lead + j <= Len(f[k + 1]) THEN f[k + 1][lead + j] ELSE NaN
    IN  IF \E k \in 3..Len(lines) : Len(f[k]) > width
        THEN Failure("ParserError")
        ELSE Success([columns |-> mangle_dupe_cols(f[1]),
                      values |-> [j \in 1..Len(f[1]) |->
                                     [k \in 1..nrows |-> at(k, j)]]])

\* What a stream positioned at pos still has to give.
stream_rest(lines, pos) == SubSeq(lines, pos + 1, Len(lines))

----------------------------------------------------------------------------
(* ZIP archives *)

zip_path == <<"q", ".", "z", "i", "p">>

\* A second data member, never the one the loader should read.
Decoy == << <<"a", ",", "b">>, <<"9", "9", ",", "9", "8">> >>

Layouts == UNION {[1..n -> {"dir", "file"}] : n \in 0..MaxEntries}

EntryName(kind, i) == IF kind = "dir" THEN <<"d", D(i), "/">> ELSE <<"f", D(i)>>

\* The first file entry holds text, every later file entry holds Decoy.
Archive(layout, text) ==
    [i \in 1..Len(layout) |->
        [name |-> EntryName(layout[i], i),
         data |-> IF layout[i] = "dir" THEN <<>>
                  ELSE IF \A j \in 1..(i - 1) : layout[j] = "dir" THEN text
                  ELSE Decoy]]

Archives == {Archive(l, t) : l \in Layouts, t \in Texts}

Requests == UNION {[1..n -> Names] : n \in 1..MaxReq}

\* zf.namelist()
namelist(zf) == [i \in 1..Len(zf) |-> zf[i].name]

\* m.endswith("/")
endswith_slash(m) == Len(m) > 0 /\ m[Len(m)] = "/"

\* [m for m in zf.namelist() if not m.endswith("/")]
data_members_unfiltered(zf) == namelist(zf)
data_members(zf) == SelectSeq(namelist(zf), LAMBDA m : ~endswith_slash(m))

\* zf.open(name): the bytes of the member of that name
member_data(zf, name) == zf[CHOOSE i \in 1..Len(zf) : zf[i].name = name].data

NoError == [type |-> "none", path |-> <<>>, detail |-> <<>>]
NoStream == [open |-> FALSE, pos |-> 0]

\* Leaving a with-block closes its handle, on return and on exception alike.
exit_with_leak_on_raise(hs, h, raising) == IF raising THEN hs ELSE hs \ {h}
exit_with(hs, h, raising) == hs \ {h}

----------------------------------------------------------------------------
(* Column resolution of extract_columns_from_zip *)

\* {c.upper(): c for c in df.columns}: a later column replaces an earlier
\* one with the same upper-cased name.
col_map_keeps_first(frame) ==
    LET cols == frame.columns
    IN  [u \in {upper(cols[i]) : i \in 1..Len(cols)} |->
            cols[Min({i \in 1..Len(cols) : upper(cols[i]) = u})]]
col_map(frame) ==
    LET cols == frame.columns
    IN  [u \in {upper(cols[i]) : i \in 1..Len(cols)} |->
            LET last == CHOOSE i \in 1..Len(cols) :
                            /\ upper(cols[i]) = u
                            /\ \A j \in 1..Len(cols) : upper(cols[j]) = u => j <= i
            IN  cols[last]]

\* [col for col in required_columns if col.upper() not in col_map]
missing_first_only(frame, req) ==
    LET all == SelectSeq(req, LAMBDA col : upper(col) \notin DOMAIN col_map(frame))
    IN  IF all = <<>> THEN <<>> ELSE <<all[1]>>
missing(frame, req) ==
    SelectSeq(req, LAMBDA col : upper(col) \notin DOMAIN col_map(frame))

\* df[name]
column(frame, name) ==
    frame.values[CHOOSE i \in 1..Len(frame.columns) : frame.columns[i] = name]

\* The keys of a dict built from a sequence, in insertion order.
RECURSIVE dict_keys(_)
dict_keys(s) ==
    IF Len(s) = 0 THEN <<>>
    ELSE LET init == dict_keys(SubSeq(s, 1, Len(s) - 1))
             last == s[Len(s)]
         IN  IF \E i \in 1..Len(init) : init[i] = last THEN init
             ELSE Append(init, last)

\* pd.DataFrame({col: df[col_map[col.upper()]] for col in required_columns})
selected_source_names(frame, req) ==
    [columns |-> [i \in 1..Len(req) |-> col_map(frame)[upper(req[i])]],
     values |-> [i \in 1..Len(req) |->
                    column(frame, col_map(frame)[upper(req[i])])]]
selected(frame, req) ==
    LET keys == dict_keys(req)
    IN  [columns |-> keys,
         values |-> [i \in 1..Len(keys) |->
                        column(frame, col_map(frame)[upper(keys[i])])]]

----------------------------------------------------------------------------
(* extract_columns_from_zip, step by step *)

\* Variables of main, idle while a single file is read.
MainIdle == /\ mpc = "idle"
            /\ args = [start_year |-> 0, end_year |-> 0, quarters |-> <<>>]
            /\ year = 0
            /\ qidx = 0
            /\ disk = <<>>
            /\ csvs = {}
            /\ attempts = <<>>
            /\ reported = <<>>
            /\ url_idx = 0
            /\ tried = <<>>
            /\ ex = "none"
            /\ faults = 0

\* Variables of _load_table_any, idle while a ZIP is read.
LoadIdle == /\ path = [name |-> "", ext |-> ""]
            /\ file = [gz |-> "none",
                       body |-> [fmt |-> "none", lines |-> <<>>, doc |-> "none",
                                 objs |-> <<>>, frame |-> NoFrame]]
            /\ exc = NoError

InitZip ==
    /\ pc = "zip_call"
    /\ handles = {}
    /\ peak = 0
    /\ fh = NoStream
    /\ df = NoFrame
    /\ result = NoFrame
    /\ error = NoError
    /\ reads = <<>>
    /\ archive \in Archives
    /\ required_columns = <<>>
    /\ data_file = <<>>
    /\ LoadIdle
    /\ MainIdle

\* with zipfile.ZipFile(zip_path, "r") as zf:
ZipFileOpen ==
    /\ pc = "zip_call"
    /\ handles' = handles \cup {"zf"}
    /\ peak' = Max(peak, Cardinality(handles) + 1)
    /\ pc' = "members"
    /\ UNCHANGED <<fh, df, result, error, reads, archive, required_columns,
                   data_file, path, file, exc>>
    /\ UNCHANGED main_vars

\* data_members = [...]; if not data_members: raise RuntimeError;
\* data_file = data_members[0]
SelectMember ==
    /\ pc = "members"
    /\ IF data_members(archive) = <<>>
       THEN /\ error' = [type |-> "RuntimeError", path |-> zip_path,
                         detail |-> <<"No files found inside">>]
            /\ handles' = exit_with(handles, "zf", TRUE)
            /\ pc' = "raised"
            /\ UNCHANGED data_file
       ELSE /\ data_file' = data_members(archive)[1]
            /\ pc' = "open_member"
            /\ UNCHANGED <<error, handles>>
    /\ UNCHANGED <<peak, fh, df, result, reads, archive, required_columns,
                   path, file, exc>>
    /\ UNCHANGED main_vars

\* with zf.open(data_file) as fh: the member stream reads through the
\* archive's own handle; no second operating-system handle is opened.
OpenMember ==
    /\ pc = "open_member"
    /\ fh' = [open |-> TRUE, pos |-> 0]
    /\ pc' = "try_comma"
    /\ UNCHANGED <<handles, peak, df, result, error, reads, archive,
                   required_columns, data_file, path, file, exc>>
    /\ UNCHANGED main_vars

\* try: df = pd.read_csv(fh, low_memory=False)
TryComma ==
    /\ pc = "try_comma"
    /\ LET data == member_data(archive, data_file)
           r == read_csv(stream_rest(data, fh.pos), ",")
       IN  /\ reads' = Append(reads, <<data_file, ",">>)
           /\ IF r.ok
              THEN /\ df' = r.frame
                   /\ fh' = NoStream
                   /\ handles' = exit_with(handles, "zf", FALSE)
                   /\ pc' = "resolve"
              ELSE /\ fh' = [fh EXCEPT !.pos = Len(data)]
                   /\ pc' = "except"
                   /\ UNCHANGED <<df, handles>>
    /\ UNCHANGED <<peak, result, error, archive, required_columns, data_file,
                   path, file, exc>>
    /\ UNCHANGED main_vars

\* except Exception: fh.seek(0); df = pd.read_csv(fh, delimiter="|", ...)
RetryPipe ==
    /\ pc = "except"
    /\ LET data == member_data(archive, data_file)
           r == read_csv(stream_rest(data, 0), "|")
       IN  /\ reads' = Append(reads, <<data_file, "|">>)
           /\ fh' = NoStream
           /\ IF r.ok
              THEN /\ df' = r.frame
                   /\ handles' = exit_with(handles, "zf", FALSE)
                   /\ pc' = "resolve"
                   /\ UNCHANGED error
              ELSE /\ error' = [type |-> r.error, path |-> <<>>, detail |-> <<>>]
                   /\ handles' = exit_with(handles, "zf", TRUE)
                   /\ pc' = "raised"
                   /\ UNCHANGED df
    /\ UNCHANGED <<peak, result, archive, required_columns, data_file,
                   path, file, exc>>
    /\ UNCHANGED main_vars

\* col_map, missing, raise KeyError or return pd.DataFrame(selected).
\* required_columns is first read here; the call's argument is bound here.
ResolveColumns ==
    /\ pc = "resolve"
    /\ \E req \in Requests :
        /\ required_columns' = req
        /\ IF missing(df, req) # <<>>
           THEN /\ error' = [type |-> "KeyError", path |-> zip_path,
                             detail |-> join(missing(df, req), <<",", " ">>)]
                /\ pc' = "raised"
                /\ UNCHANGED result
           ELSE /\ result' = selected(df, req)
                /\ pc' = "returned"
                /\ UNCHANGED error
    /\ UNCHANGED <<handles, peak, fh, df, reads, archive, data_file,
                   path, file, exc>>
    /\ UNCHANGED main_vars

----------------------------------------------------------------------------
(* The files _load_table_any is given *)

Suffixes == {".csv", ".CSV", ".tsv", ".dta", ".rds", ".RData", ".rda", ".R", ".txt"}

\* str.lower() on a file suffix
lower(s) ==
    CASE s = ".CSV" -> ".csv"
      [] s = ".RData" -> ".rdata"
      [] s = ".R" -> ".r"
      [] OTHER -> s

\* The container of the bytes: plain, a gzip stream, or the gzip signature
\* followed by a broken stream.
Containers == {"none", "gzip", "badgzip"}

\* The table inside the i-th object of an R file, and inside a Stata file.
ObjFrame(i) == [columns |-> << <<"a">> >>, values |-> << << <<"5", D(i)>> >> >>]
CoercedFrame(i) == [columns |-> << <<"0">> >>, values |-> << << <<"5", D(i)>> >> >>]
StataFrames == {[columns |-> << <<"a">> >>, values |-> << <<>> >>],
                [columns |-> << <<"a">> >>, values |-> << << <<"7">> >> >>]}

\* JSON documents: the lines of the file and the table pd.DataFrame(js) gives.
JsonDocs ==
    { [doc |-> "array",
       lines |-> << <<"[", "{", "a", ":", "1", "}", "]">> >>,
       frame |-> [columns |-> << <<"a">> >>, values |-> << << <<"1">> >> >>]],
      [doc |-> "array",
       lines |-> << <<"[">>,
                    <<"{", "a", ":", "1", "}", ",">>,
                    <<"{", "a", ":", "2", ",", "b", ":", "3", ",", "c", ":", "4", "}">>,
                    <<"]">> >>,
       frame |-> [columns |-> << <<"a">>, <<"b">>, <<"c">> >>,
                  values |-> << << <<"1">>, <<"2">> >>,
                                << NaN, <<"3">> >>,
                                << NaN, <<"4">> >> >>]],
      [doc |-> "object",
       lines |-> << <<"{">>,
                    <<"a", ":", "1", ",">>,
                    <<"b", ":", "2", ",", "c", ":", "3", ",", "d", ":", "4">>,
                    <<"}">> >>,
       frame |-> NoFrame] }

ObjKinds == {"df", "array", "opaque"}
ObjLists == UNION {[1..n -> ObjKinds] : n \in 0..MaxObjs}

Payloads ==
    {[fmt |-> "text", lines |-> t, doc |-> "none", objs |-> <<>>,
      frame |-> NoFrame] : t \in Texts}
    \cup {[fmt |-> "json", lines |-> j.lines, doc |-> j.doc, objs |-> <<>>,
           frame |-> j.frame] : j \in JsonDocs}
    \cup {[fmt |-> "stata", lines |-> <<>>, doc |-> "none", objs |-> <<>>,
           frame |-> t] : t \in StataFrames}
    \cup {[fmt |-> "robj", lines |-> <<>>, doc |-> "none", objs |-> o,
           frame |-> NoFrame] : o \in ObjLists}
    \cup {[fmt |-> "binary", lines |-> <<>>, doc |-> "none", objs |-> <<>>,
           frame |-> NoFrame]}

Files == {[gz |-> g, body |-> b] : g \in Containers, b \in Payloads}

Paths == {[name |-> "x", ext |-> e] : e \in Suffixes}

IsText(f) == f.body.fmt \in {"text", "json"}

\* f.read(2)
GzipMagic == <<"1F", "8B">>
head(f) ==
    IF f.gz # "none" THEN GzipMagic
    ELSE IF IsText(f)
         THEN LET flat == join(f.body.lines, <<"\n">>)
              IN  SubSeq(flat, 1, IF Len(flat) < 2 THEN Len(flat) ELSE 2)
         ELSE <<"00", "01">>

\* return head == b'\x1f\x8b'
is_gzip(f) == head(f) = GzipMagic

\* pd.read_csv(path, sep=sep): the bytes are decoded as UTF-8 text.
pd_read_csv_path(f, sep) ==
    IF f.gz = "none" /\ IsText(f) THEN read_csv(f.body.lines, sep)
    ELSE Failure("UnicodeDecodeError")

\* pd.read_csv(fh, sep=sep) on a gzip.open(path, 'rt') stream at pos
gz_read_csv(f, sep, pos) ==
    IF f.gz # "gzip" THEN Failure("BadGzipFile")
    ELSE IF ~IsText(f) THEN Failure("UnicodeDecodeError")
    ELSE read_csv(stream_rest(f.body.lines, pos), sep)

\* pd.read_stata(path)
read_stata(f) ==
    IF f.gz = "none" /\ f.body.fmt = "stata" THEN Success(f.body.frame)
    ELSE Failure("StataError")

\* pyreadr.read_r(path): R files may be gzip-compressed
read_r_ok(f) == f.gz \in {"none", "gzip"} /\ f.body.fmt = "robj"

\* json.load(f) followed by pd.DataFrame(js)
json_to_frame_swallow(f) ==
    IF f.gz = "none" /\ f.body.fmt = "json" /\ f.body.doc = "array"
    THEN Success(f.body.frame)
    ELSE Success(NoFrame)
json_to_frame(f) ==
    IF f.gz # "none" \/ ~IsText(f) THEN Failure("UnicodeDecodeError")
    ELSE IF f.body.fmt # "json" THEN Failure("JSONDecodeError")
    ELSE IF f.body.doc # "array" THEN Failure("DataFrameError")
    ELSE Success(f.body.frame)

----------------------------------------------------------------------------
(* _load_table_any, _load_r_file and _is_gzip, step by step *)

ZipIdle == /\ archive = <<>>
           /\ required_columns = <<>>
           /\ data_file = <<>>

InitLoad ==
    /\ pc = "load_call"
    /\ handles = {}
    /\ peak = 0
    /\ fh = NoStream
    /\ df = NoFrame
    /\ result = NoFrame
    /\ error = NoError
    /\ reads = <<>>
    /\ path \in Paths
    /\ file \in Files
    /\ exc = NoError
    /\ ZipIdle
    /\ MainIdle

ext == lower(path.ext)
sep_of(e) == IF e = ".csv" THEN "," ELSE "\t"

Return(frame) ==
    /\ result' = frame
    /\ pc' = "returned"
    /\ UNCHANGED error

Raise(e) ==
    /\ error' = e
    /\ pc' = "raised"
    /\ UNCHANGED result

\* ext = os.path.splitext(path)[1].lower() and the chain of if-statements
Dispatch ==
    /\ pc = "load_call"
    /\ pc' = IF ext \in {".csv", ".tsv"} THEN "csv_sniff"
             ELSE IF ext = ".dta" THEN "stata"
             ELSE IF ext \in {".rds", ".rdata", ".rda"} \/ ext = ".r" THEN "r_read"
             ELSE "last_csv"
    /\ UNCHANGED <<handles, peak, fh, df, result, error, reads, archive,
                   required_columns, data_file, path, file, exc>>
    /\ UNCHANGED main_vars

\* _is_gzip: with open(path, 'rb') as f:
IsGzipOpen ==
    /\ pc \in {"csv_sniff", "r_sniff"}
    /\ handles' = handles \cup {"f"}
    /\ peak' = Max(peak, Cardinality(handles) + 1)
    /\ pc' = IF pc = "csv_sniff" THEN "csv_sniffing" ELSE "r_sniffing"
    /\ UNCHANGED <<fh, df, result, error, reads, archive, required_columns,
                   data_file, path, file, exc>>
    /\ UNCHANGED main_vars

\* _is_gzip: head = f.read(2); return head == b'\x1f\x8b', and the branch
\* its caller takes; in _load_r_file a false answer re-raises the caught
\* exception.
IsGzipReturn ==
    /\ pc \in {"csv_sniffing", "r_sniffing"}
    /\ handles' = exit_with(handles, "f", FALSE)
    /\ IF pc = "csv_sniffing"
       THEN /\ pc' = IF is_gzip(file) THEN "csv_gz_open" ELSE "csv_plain"
            /\ UNCHANGED <<error, result>>
       ELSE IF is_gzip(file)
            THEN /\ pc' = "r_gz_open"
                 /\ UNCHANGED <<error, result>>
            ELSE Raise(exc)
    /\ UNCHANGED <<peak, fh, df, reads, archive, required_columns,
                   data_file, path, file, exc>>
    /\ UNCHANGED main_vars

\* with gzip.open(path, 'rt', encoding='utf-8') as fh:  (both call sites)
GzipOpen ==
    /\ pc \in {"csv_gz_open", "r_gz_open"}
    /\ handles' = handles \cup {"gz"}
    /\ peak' = Max(peak, Cardinality(handles) + 1)
    /\ fh' = [open |-> TRUE, pos |-> 0]
    /\ pc' = IF pc = "csv_gz_open" THEN "csv_gz_read" ELSE "r_gz_comma"
    /\ UNCHANGED <<df, result, error, reads, archive, required_columns,
                   data_file, path, file, exc>>
    /\ UNCHANGED main_vars

\* return pd.read_csv(fh, sep=sep) inside the with-block
CsvGzipRead ==
    /\ pc = "csv_gz_read"
    /\ LET r == gz_read_csv(file, sep_of(ext), fh.pos)
       IN  /\ reads' = Append(reads, <<"gzip", sep_of(ext)>>)
           /\ fh' = NoStream
           /\ handles' = exit_with(handles, "gz", ~r.ok)
           /\ IF r.ok THEN Return(r.frame)
              ELSE Raise([type |-> r.error, path |-> <<>>, detail |-> <<>>])
    /\ UNCHANGED <<peak, df, archive, required_columns, data_file, path,
                   file, exc>>
    /\ UNCHANGED main_vars

\* A library reader given the path opens the file and closes it again
\* before it returns or raises.
LibraryRead ==
    /\ peak' = Max(peak, Cardinality(handles) + 1)
    /\ UNCHANGED <<handles, fh>>

\* return pd.read_csv(path, sep=sep)
CsvPlainRead ==
    /\ pc = "csv_plain"
    /\ LibraryRead
    /\ LET r == pd_read_csv_path(file, sep_of(ext))
       IN  /\ reads' = Append(reads, <<"path", sep_of(ext)>>)
           /\ IF r.ok THEN Return(r.frame)
              ELSE Raise([type |-> r.error, path |-> <<>>, detail |-> <<>>])
    /\ UNCHANGED <<df, archive, required_columns, data_file, path, file, exc>>
    /\ UNCHANGED main_vars

\* return pd.read_stata(path)
ReadStata ==
    /\ pc = "stata"
    /\ LibraryRead
    /\ LET r == read_stata(file)
       IN  /\ reads' = Append(reads, <<"path", "stata">>)
           /\ IF r.ok THEN Return(r.frame)
              ELSE Raise([type |-> r.error, path |-> <<>>, detail |-> <<>>])
    /\ UNCHANGED <<df, archive, required_columns, data_file, path, file, exc>>
    /\ UNCHANGED main_vars

\* The path as it is printed in a message.
path_str == <<path.name, path.ext>>

\* ValueError(f"Unsupported file format or unreadable content: {path}. Error: {e}")
format_error_without_path(e) == [type |-> "ValueError", path |-> <<>>, detail |-> <<e>>]
format_error(e) == [type |-> "ValueError", path |-> path_str, detail |-> <<e>>]

NoDataFrame == "R file loaded but no DataFrame-like object found."

\* _load_r_file, the try block: read_r, the first DataFrame, else the first
\* object coerced, else raise ValueError; `except Exception as e` of the
\* same try statement catches a failed read_r and that ValueError alike.
ReadR ==
    /\ pc = "r_read"
    /\ LibraryRead
    /\ reads' = Append(reads, <<"path", "read_r">>)
    /\ LET objs == file.body.objs
           dfs == {i \in 1..Len(objs) : objs[i] = "df"}
       IN  IF ~read_r_ok(file)
           THEN /\ exc' = [type |-> "LibrdataError", path |-> <<>>,
                           detail |-> <<"LibrdataError">>]
                /\ pc' = "r_sniff"
                /\ UNCHANGED <<result, error>>
           ELSE IF dfs # {}
           THEN /\ Return(ObjFrame(Min(dfs)))
                /\ UNCHANGED exc
           ELSE IF Len(objs) > 0 /\ objs[1] = "array"
           THEN /\ Return(CoercedFrame(1))
                /\ UNCHANGED exc
           ELSE /\ exc' = [type |-> "ValueError", path |-> <<>>,
                           detail |-> <<NoDataFrame>>]
                /\ pc' = "r_sniff"
                /\ UNCHANGED <<result, error>>
    /\ UNCHANGED <<df, archive, required_columns, data_file, path, file>>
    /\ UNCHANGED main_vars

\* try: df = pd.read_csv(fh)
RGzipTryComma ==
    /\ pc = "r_gz_comma"
    /\ LET r == gz_read_csv(file, ",", fh.pos)
       IN  /\ reads' = Append(reads, <<"gzip", ",">>)
           /\ IF r.ok
              THEN /\ df' = r.frame
                   /\ fh' = NoStream
                   /\ handles' = exit_with(handles, "gz", FALSE)
                   /\ Return(r.frame)
              ELSE /\ fh' = [fh EXCEPT !.pos = Len(file.body.lines)]
                   /\ pc' = "r_gz_except"
                   /\ UNCHANGED <<df, handles, result, error>>
    /\ UNCHANGED <<peak, archive, required_columns, data_file, path, file, exc>>
    /\ UNCHANGED main_vars

\* except Exception: fh.seek(0); df = pd.read_csv(fh, sep='|'); a failure
\* here is e2: raise ValueError(R error: e; gzip error: e2)
RGzipRetryPipe ==
    /\ pc = "r_gz_except"
    /\ LET r == gz_read_csv(file, "|", 0)
       IN  /\ reads' = Append(reads, <<"gzip", "|">>)
           /\ fh' = NoStream
           /\ handles' = exit_with(handles, "gz", ~r.ok)
           /\ IF r.ok
              THEN /\ df' = r.frame
                   /\ Return(r.frame)
              ELSE /\ Raise([type |-> "ValueError", path |-> <<>>,
                             detail |-> exc.detail \o <<r.error>>])
                   /\ UNCHANGED df
    /\ UNCHANGED <<peak, archive, required_columns, data_file, path, file, exc>>
    /\ UNCHANGED main_vars

\* try: return pd.read_csv(path)  except Exception: pass
LastResortCsv ==
    /\ pc = "last_csv"
    /\ LibraryRead
    /\ LET r == pd_read_csv_path(file, ",")
       IN  /\ reads' = Append(reads, <<"path", ",">>)
           /\ IF r.ok THEN Return(r.frame)
              ELSE /\ pc' = "json_open"
                   /\ UNCHANGED <<result, error>>
    /\ UNCHANGED <<df, archive, required_columns, data_file, path, file, exc>>
    /\ UNCHANGED main_vars

\* with open(path, 'r', encoding='utf-8') as f:
JsonOpen ==
    /\ pc = "json_open"
    /\ handles' = handles \cup {"f"}
    /\ peak' = Max(peak, Cardinality(handles) + 1)
    /\ pc' = "json_load"
    /\ UNCHANGED <<fh, df, result, error, reads, archive, required_columns,
                   data_file, path, file, exc>>
    /\ UNCHANGED main_vars

\* js = json.load(f); return pd.DataFrame(js)
\* except Exception as e: raise ValueError(... {path}. Error: {e})
JsonLoad ==
    /\ pc = "json_load"
    /\ LET r == json_to_frame(file)
       IN  /\ reads' = Append(reads, <<"path", "json">>)
           /\ handles' = exit_with(handles, "f", ~r.ok)
           /\ IF r.ok THEN Return(r.frame)
              ELSE Raise(format_error(r.error))
    /\ UNCHANGED <<peak, fh, df, archive, required_columns, data_file, path,
                   file, exc>>
    /\ UNCHANGED main_vars

NextLoad ==
    \/ Dispatch
    \/ IsGzipOpen
    \/ IsGzipReturn
    \/ GzipOpen
    \/ CsvGzipRead
    \/ CsvPlainRead
    \/ ReadStata
    \/ ReadR
    \/ RGzipTryComma
    \/ RGzipRetryPipe
    \/ LastResortCsv
    \/ JsonOpen
    \/ JsonLoad

NextZip ==
    \/ ZipFileOpen
    \/ SelectMember
    \/ OpenMember
    \/ TryComma
    \/ RetryPipe
    \/ ResolveColumns

Init == InitZip \/ InitLoad

Next == NextZip \/ NextLoad

Spec == Init /\ [][Next]_vars

----------------------------------------------------------------------------
(* Properties *)

Zipping == path.name = ""
Loading == path.name # ""
Finished == pc \in {"returned", "raised"}

\* ResolveColumns has acted on the parsed member.
Resolved == Zipping /\ required_columns # <<>>

\* Two names are equal ignoring case.
SameLetter(c, d) ==
    \/ c = d
    \/ {c, d} = {"a", "A"}
    \/ {c, d} = {"b", "B"}
EqualIgnoringCase(s, t) ==
    /\ Len(s) = Len(t)
    /\ \A i \in 1..Len(s) : SameLetter(s[i], t[i])

HasMatch(frame, col) ==
    \E i \in 1..Len(frame.columns) : EqualIgnoringCase(frame.columns[i], col)

\* The requested names without a case-insensitive match, in request order.
Absent(frame, req) == SelectSeq(req, LAMBDA col : ~HasMatch(frame, col))

FirstPos(s, x) == Min({i \in 1..Len(s) : s[i] = x})

\* C1: when a requested name has no case-insensitive match among the parsed
\* columns, the call raises KeyError whose message lists every absent
\* requested name, in request order, and no dataset is returned.
C1_MissingColumnsAllNamed ==
    (Resolved /\ Absent(df, required_columns) # <<>>) =>
        /\ pc = "raised"
        /\ error.type = "KeyError"
        /\ error.path = zip_path
        /\ error.detail = join(Absent(df, required_columns), <<",", " ">>)
        /\ result = NoFrame

\* C1 witness: two different requested names are absent and both are named.
C1_Witness ==
    /\ Resolved
    /\ pc = "raised"
    /\ error.type = "KeyError"
    /\ Len(Absent(df, required_columns)) = 2
    /\ required_columns[1] # required_columns[2]
    /\ Len(df.columns) >= 1

\* C2: when every requested name has a case-insensitive match, the call
\* returns a dataset whose columns are the requested names as spelled by the
\* caller, in request order, each holding the values of a source column whose
\* name equals the requested one ignoring case.
C2_RequestedColumnsInRequestOrder ==
    (Resolved /\ Absent(df, required_columns) = <<>>) =>
        /\ pc = "returned"
        /\ {result.columns[i] : i \in 1..Len(result.columns)}
             = {required_columns[i] : i \in 1..Len(required_columns)}
        /\ Len(result.values) = Len(result.columns)
        /\ \A i, j \in 1..Len(result.columns) :
              i < j => FirstPos(required_columns, result.columns[i])
                          < FirstPos(required_columns, result.columns[j])
        /\ \A i \in 1..Len(result.columns) :
              \E j \in 1..Len(df.columns) :
                 /\ EqualIgnoringCase(df.columns[j], result.columns[i])
                 /\ result.values[i] = df.values[j]

\* C2 witness: source a,b with data; request b,A comes back as b,A.
C2_Witness ==
    /\ Resolved
    /\ pc = "returned"
    /\ df.columns = << <<"a">>, <<"b">> >>
    /\ Len(df.values[1]) >= 1
    /\ required_columns = << <<"b">>, <<"A">> >>
    /\ result.columns = << <<"b">>, <<"A">> >>
    /\ result.values = << df.values[2], df.values[1] >>

IsPipeDelimited(lines) ==
    /\ Len(lines) >= 1
    /\ Len(split(lines[1], "|")) >= 2
    /\ \A k \in 1..Len(lines) :
          Len(split(lines[k], "|")) = Len(split(lines[1], "|"))

\* C4 as stated: for a pipe-delimited member the comma attempt is abandoned
\* and the table handed to column resolution is the member split on '|'.
C4_PipeMemberSplitOnPipe ==
    (/\ Zipping
     /\ pc \in {"resolve", "returned", "raised"}
     /\ data_file # <<>>
     /\ IsPipeDelimited(member_data(archive, data_file))) =>
        /\ reads = << <<data_file, ",">>, <<data_file, "|">> >>
        /\ df = read_csv(member_data(archive, data_file), "|").frame

\* What the file's own format says the table is.
TrueTable(f, t) ==
    \/ \E s \in {",", "\t", "|"} :
          /\ IsText(f) /\ f.gz \in {"none", "gzip"}
          /\ read_csv(f.body.lines, s).ok
          /\ t = read_csv(f.body.lines, s).frame
    \/ f.gz = "none" /\ f.body.fmt = "stata" /\ t = f.body.frame
    \/ /\ f.gz \in {"none", "gzip"} /\ f.body.fmt = "robj"
       /\ \/ \E i \in 1..Len(f.body.objs) : f.body.objs[i] = "df" /\ t = ObjFrame(i)
          \/ /\ Len(f.body.objs) > 0 /\ f.body.objs[1] = "array"
             /\ t = CoercedFrame(1)
    \/ f.gz = "none" /\ f.body.fmt = "json" /\ f.body.doc = "array"
       /\ t = f.body.frame

\* The positions of _load_table_any at which a step is still to be taken
\* (each is the whole guard of the step that leaves it).
LoadSteps ==
    {"load_call", "csv_sniff", "csv_sniffing", "csv_gz_open", "csv_gz_read",
     "csv_plain", "stata", "r_read", "r_sniff", "r_sniffing", "r_gz_open",
     "r_gz_comma", "r_gz_except", "last_csv", "json_open", "json_load"}

\* C5: _load_table_any ends in exactly one of two ways: it returns a table
\* that an interpreter obtained from the file, or it raises; nothing is
\* returned, empty or partial, for a file no interpreter could parse, and
\* the call never stops anywhere else.
C5_ReturnsParsedTableOrRaises ==
    Loading =>
        /\ pc = "returned" => (error = NoError /\ TrueTable(file, result))
        /\ pc = "raised" => (error # NoError /\ result = NoFrame)
        /\ ~Finished => (result = NoFrame /\ error = NoError /\ pc \in LoadSteps)

\* C5 witness: an unrecognized file that fails as CSV and parses as JSON.
C5_Witness ==
    /\ Loading
    /\ pc = "returned"
    /\ reads = << <<"path", ",">>, <<"path", "json">> >>
    /\ result = file.body.frame

Unrecognized ==
    ext \notin {".csv", ".tsv", ".dta", ".rds", ".rdata", ".rda", ".r"}

JsonFailure(f) ==
    IF f.gz # "none" \/ ~IsText(f) THEN "UnicodeDecodeError"
    ELSE IF f.body.fmt # "json" THEN "JSONDecodeError"
    ELSE "DataFrameError"

RExtension == ext \in {".rds", ".rdata", ".rda", ".r"}

\* C7 as stated: an R-extension file that does not deserialize, carries the
\* gzip signature and decompresses to pipe-delimited text is returned as
\* the table of that text split on '|'.
C7_GzipPipeTextSplitOnPipe ==
    (/\ Loading /\ RExtension /\ Finished
     /\ file.gz = "gzip" /\ file.body.fmt = "text"
     /\ IsPipeDelimited(file.body.lines)) =>
        /\ pc = "returned"
        /\ result = read_csv(file.body.lines, "|").frame

\* C8 as stated: an R-extension file that deserializes but holds neither a
\* DataFrame nor a coercible first object fails with the no-DataFrame
\* ValueError, and the gzip-text fallback is never entered for it.
C8_DeserializedFileNeverFallsBack ==
    (/\ Loading /\ RExtension /\ read_r_ok(file)
     /\ \A i \in 1..Len(file.body.objs) : file.body.objs[i] # "df"
     /\ (Len(file.body.objs) > 0 => file.body.objs[1] # "array")) =>
        /\ pc \notin {"r_gz_open", "r_gz_comma", "r_gz_except"}
        /\ Finished =>
              /\ pc = "raised"
              /\ error.type = "ValueError"
              /\ error.detail = <<NoDataFrame>>

IsFirstDataMember(zf, m) ==
    \E i \in 1..Len(zf) :
       /\ zf[i].name = m
       /\ m[Len(m)] # "/"
       /\ \A j \in 1..(i - 1) : zf[j].name[Len(zf[j].name)] = "/"

HasDataMember(zf) == \E i \in 1..Len(zf) : zf[i].name[Len(zf[i].name)] # "/"

\* C10: every parse attempt reads the first non-directory entry and the
\* parsed table is that entry's; an archive without a non-directory entry
\* raises RuntimeError before anything is parsed or resolved.
C10_OnlyFirstDataMemberParsed ==
    Zipping =>
        /\ \A k \in 1..Len(reads) : IsFirstDataMember(archive, reads[k][1])
        /\ data_file # <<>> => IsFirstDataMember(archive, data_file)
        /\ pc = "resolve" =>
              \E s \in {",", "|"} :
                 df = read_csv(member_data(archive, reads[1][1]), s).frame
        /\ (~HasDataMember(archive) /\ pc \notin {"zip_call", "members"}) =>
              /\ pc = "raised"
              /\ error.type = "RuntimeError"
              /\ error.path = zip_path
              /\ reads = <<>>
              /\ required_columns = <<>>
              /\ df = NoFrame

\* C10 witness: two data members; the first is parsed, the second ignored.
C10_Witness ==
    /\ Zipping
    /\ pc = "returned"
    /\ Len(archive) = 2
    /\ data_members(archive) = <<archive[1].name, archive[2].name>>
    /\ archive[1].data # archive[2].data
    /\ df = read_csv(archive[1].data, ",").frame
    /\ df # read_csv(archive[2].data, ",").frame

\* The source columns whose name equals col ignoring case.
CaseGroup(frame, col) ==
    {j \in 1..Len(frame.columns) : EqualIgnoringCase(frame.columns[j], col)}

LastOf(S) == CHOOSE x \in S : \A y \in S : y <= x

\* C14: when several source columns have names equal ignoring case, a
\* request for that name in any casing is answered, without any error for
\* the ambiguity, with the values of the last such column in source order;
\* the earlier ones are never returned.
C14_LastCaseDuplicateWins ==
    /\ (Resolved /\ Absent(df, required_columns) = <<>>) => pc = "returned"
    /\ (Zipping /\ pc = "returned") =>
          \A i \in 1..Len(result.columns) :
             result.values[i]
                = df.values[LastOf(CaseGroup(df, result.columns[i]))]

\* C14 witness: source columns a and A with data; the request for a gets
\* the values of A.
C14_Witness ==
    /\ Zipping
    /\ pc = "returned"
    /\ df.columns = << <<"a">>, <<"A">> >>
    /\ Len(df.values[1]) >= 1
    /\ df.values[1] # df.values[2]
    /\ required_columns = << <<"a">> >>
    /\ result.values = << df.values[2] >>

----------------------------------------------------------------------------
(* download_db1b.py: build_db1b_url, download_file, process_quarter, main *)

MaxYears == 2       \* years from start_year on
MaxQuarters == 2    \* entries of --quarters
MaxChunks == 2      \* chunks of a response body
MaxFaults == 2      \* network faults in one run

\* --start-year, default=2005
FirstYear == 2005

\* --quarters, choices=[1, 2, 3, 4]
QuarterChoices == {1, 2, 3, 4}

\* --quarters, nargs="+": one or more quarters, repeats allowed.
QuarterLists == UNION {[1..n -> QuarterChoices] : n \in 1..MaxQuarters}

\* parsed = parser.parse_args(args); an end year before the start year gives
\* an empty range.
ParsedArgs == [start_year : {FirstYear},
               end_year : (FirstYear - 1)..(FirstYear + MaxYears - 1),
               quarters : QuarterLists]

years_end_exclusive(parsed) == parsed.start_year..(parsed.end_year - 1)

\* years = range(parsed.start_year, parsed.end_year + 1)
years(parsed) == parsed.start_year..((parsed.end_year + 1) - 1)

base_urls == <<"https://transtats.bts.gov/PREZIP",
               "https://www.transtats.bts.gov/PREZIP">>

\* return [f"{base}/{filename}" for base in base_urls]
build_db1b_url(y, quarter) ==
    [i \in 1..Len(base_urls) |->
        [base |-> base_urls[i], year |-> y, quarter |-> quarter]]

\* The files db1b_market_{year}q{quarter}.zip that out_dir can hold.
Pairs == (FirstYear..(FirstYear + MaxYears - 1)) \X QuarterChoices

\* A path at which nothing exists.
NoFile == [exists |-> FALSE, kind |-> "none", got |-> 0]

\* open(dest, "wb"): the file exists, and is empty, from this moment on.
open_wb(kind) == [exists |-> TRUE, kind |-> kind, got |-> 0]

\* What a server sends with status 200: the DB1B archive or something else
\* (an error page, an archive of another layout).  Every body takes MaxChunks
\* chunks of 8192 bytes.
Bodies == {"db1b", "other"}

\* The file holds a whole response body.
Complete(f) == f.exists /\ f.got = MaxChunks

status_any(status) == TRUE

\* if resp.status_code == 200:
status_ok(status) == status = 200

\* The status codes a server answers with.
StatusCodes == {200, 404}

\* The (year, quarter) main is processing.
pair == <<year, args.quarters[qidx]>>

urls == build_db1b_url(pair[1], pair[2])

\* The next iteration of the nested for loops.
NextIteration ==
    IF qidx < Len(args.quarters)
    THEN /\ qidx' = qidx + 1
         /\ year' = year
    ELSE /\ qidx' = 1
         /\ year' = year + 1

LoaderIdle ==
    /\ pc = "idle"
    /\ handles = {}
    /\ peak = 0
    /\ fh = NoStream
    /\ df = NoFrame
    /\ result = NoFrame
    /\ error = NoError
    /\ reads = <<>>
    /\ ZipIdle
    /\ LoadIdle

\* main up to the loops: arguments parsed, directories made, session created.
InitMain ==
    /\ mpc = "loop"
    /\ args \in ParsedArgs
    /\ year = args.start_year
    /\ qidx = 1
    /\ disk = [p \in Pairs |-> NoFile]
    /\ csvs = {}
    /\ attempts = <<>>
    /\ reported = <<>>
    /\ url_idx = 0
    /\ tried = <<>>
    /\ ex = "none"
    /\ faults = 0
    /\ LoaderIdle

\* for year in years: for quarter in parsed.quarters: try: process_quarter(...)
ForQuarter ==
    /\ mpc = "loop"
    /\ IF year \in years(args)
       THEN /\ attempts' = Append(attempts, pair)
            /\ mpc' = "process_quarter"
       ELSE /\ mpc' = "ancillary"
            /\ UNCHANGED attempts
    /\ UNCHANGED <<args, year, qidx, disk, csvs, reported, url_idx, tried, ex,
                   faults>>
    /\ UNCHANGED loader_vars

\* process_quarter: if not os.path.exists(zip_path): download_file(...)
\* else: skip the download
ProcessQuarter ==
    /\ mpc = "process_quarter"
    /\ mpc' = IF ~disk[pair].exists THEN "download_file" ELSE "extract"
    /\ UNCHANGED <<args, year, qidx, disk, csvs, attempts, reported, url_idx,
                   tried, ex, faults>>
    /\ UNCHANGED loader_vars

\* download_file: if os.path.exists(dest): return; otherwise start the loop
\* over the URLs.
DownloadFile ==
    /\ mpc = "download_file"
    /\ IF disk[pair].exists
       THEN /\ mpc' = "extract"
            /\ UNCHANGED url_idx
       ELSE /\ mpc' = "get"
            /\ url_idx' = 1
    /\ tried' = <<>>
    /\ UNCHANGED <<args, year, qidx, disk, csvs, attempts, reported, ex,
                   faults>>
    /\ UNCHANGED loader_vars

\* for url in urls: sess.get(url, stream=True, timeout=60)
\*   the request raises: except requests.RequestException: continue
\*   a status other than 200: trying next
\*   status 200: os.makedirs, open(dest, "wb")
\* after the loop: raise RuntimeError("All download attempts failed ...")
Get ==
    /\ mpc = "get"
    /\ IF url_idx > Len(urls)
       THEN /\ mpc' = "except"
            /\ ex' = "RuntimeError"
            /\ UNCHANGED <<disk, url_idx, tried, faults>>
       ELSE \/ /\ faults < MaxFaults
               /\ faults' = faults + 1
               /\ tried' = Append(tried, [url |-> urls[url_idx],
                                          status |-> 0, body |-> "none"])
               /\ url_idx' = url_idx + 1
               /\ UNCHANGED <<mpc, disk, ex>>
            \/ \E status \in StatusCodes :
                 IF status_ok(status)
                 THEN \E kind \in Bodies :
                        /\ kind = "other" => faults < MaxFaults
                        /\ faults' = IF kind = "other" THEN faults + 1
                                                       ELSE faults
                        /\ disk' = [disk EXCEPT ![pair] = open_wb(kind)]
                        /\ tried' = Append(tried, [url |-> urls[url_idx],
                                                   status |-> status,
                                                   body |-> "streaming"])
                        /\ mpc' = "stream"
                        /\ UNCHANGED <<url_idx, ex>>
                 ELSE /\ faults < MaxFaults
                      /\ faults' = faults + 1
                      /\ tried' = Append(tried, [url |-> urls[url_idx],
                                                 status |-> status,
                                                 body |-> "none"])
                      /\ url_idx' = url_idx + 1
                      /\ UNCHANGED <<mpc, disk, ex>>
    /\ UNCHANGED <<args, year, qidx, csvs, attempts, reported>>
    /\ UNCHANGED loader_vars

\* for chunk in resp.iter_content(chunk_size=8192): fh.write(chunk)
\*   the last chunk written: the file is closed and download_file returns
\*   the stream breaks: the file is closed as it is and
\*   except requests.RequestException: continue
Stream ==
    /\ mpc = "stream"
    /\ \/ /\ disk' = [disk EXCEPT ![pair].got = @ + 1]
          /\ IF disk[pair].got + 1 = MaxChunks
             THEN /\ tried' = [tried EXCEPT ![Len(tried)].body = "complete"]
                  /\ mpc' = "extract"
             ELSE UNCHANGED <<tried, mpc>>
          /\ UNCHANGED <<url_idx, faults>>
       \/ /\ faults < MaxFaults
          /\ faults' = faults + 1
          /\ tried' = [tried EXCEPT ![Len(tried)].body = "broken"]
          /\ url_idx' = url_idx + 1
          /\ mpc' = "get"
          /\ UNCHANGED disk
    /\ UNCHANGED <<args, year, qidx, csvs, attempts, reported, ex>>
    /\ UNCHANGED loader_vars

\* df = extract_columns_from_zip(zip_path, required_columns): a whole DB1B
\* archive gives its columns, anything else raises.
Extract ==
    /\ mpc = "extract"
    /\ IF Complete(disk[pair]) /\ disk[pair].kind = "db1b"
       THEN /\ mpc' = "to_csv"
            /\ UNCHANGED ex
       ELSE /\ mpc' = "except"
            /\ ex' = "extract_columns_from_zip"
    /\ tried' = <<>>
    /\ UNCHANGED <<args, year, qidx, disk, csvs, attempts, reported, url_idx,
                   faults>>
    /\ UNCHANGED loader_vars

\* df.to_csv(csv_path, index=False); return csv_path
ToCsv ==
    /\ mpc = "to_csv"
    /\ csvs' = csvs \cup {pair}
    /\ NextIteration
    /\ mpc' = "loop"
    /\ UNCHANGED <<args, disk, attempts, reported, url_idx, tried, ex, faults>>
    /\ UNCHANGED loader_vars

\* except Exception as ex: print(f"Failed to process {year} Q{quarter}: {ex}")
Except ==
    /\ mpc = "except"
    /\ reported' = Append(reported, pair)
    /\ ex' = "none"
    /\ tried' = <<>>
    /\ NextIteration
    /\ mpc' = "loop"
    /\ UNCHANGED <<args, disk, csvs, attempts, url_idx, faults>>
    /\ UNCHANGED loader_vars

\* What data_dir holds: none of the ancillary files, all of them, or a CPI
\* series that has no observation in 2008.
DataDirs == {"empty", "all", "cpi_without_2008"}

\* ancillary = load_ancillary_data(parsed.data_dir); print("Processing
\* complete.")  annual_mean.loc[2008] raises KeyError when 2008 is missing.
LoadAncillaryData ==
    /\ mpc = "ancillary"
    /\ \E data_dir \in DataDirs :
         mpc' = IF data_dir = "cpi_without_2008" THEN "crashed" ELSE "done"
    /\ UNCHANGED <<args, year, qidx, disk, csvs, attempts, reported, url_idx,
                   tried, ex, faults>>
    /\ UNCHANGED loader_vars

NextMain ==
    \/ ForQuarter
    \/ ProcessQuarter
    \/ DownloadFile
    \/ Get
    \/ Stream
    \/ Extract
    \/ ToCsv
    \/ Except
    \/ LoadAncillaryData

MainSpec == InitMain /\ [][NextMain]_vars

----------------------------------------------------------------------------
(* Properties of download_file, process_quarter and main *)

\* download_file has just returned after downloading.
Downloaded == mpc = "extract" /\ tried # <<>>

\* download_file has just raised RuntimeError.
AllAttemptsFailed == mpc = "except" /\ ex = "RuntimeError"

\* The request raised, was answered with an error status, or its stream broke.
Failed(t) == t.status # 200 \/ t.body = "broken"

\* The requests go to the candidate URLs in their order, one request each.
InGivenOrder == \A i \in 1..Len(tried) : tried[i].url = urls[i]

\* What holds at the end of a download_file call in either reading of C11.
DownloadEnds ==
    /\ Downloaded =>
          /\ tried[Len(tried)].status = 200
          /\ tried[Len(tried)].body = "complete"
          /\ Complete(disk[pair])
    /\ AllAttemptsFailed =>
          /\ Len(tried) = Len(urls)
          /\ \A i \in 1..Len(tried) : Failed(tried[i])
    /\ mpc = "get" => Len(tried) = url_idx - 1

C12_AcceptedFileIsComplete == mpc = "extract" => Complete(disk[pair])

\* [(year, quarter) for year in start_year..end_year for quarter in quarters]
YearMajor(parsed) ==
    LET n == Len(parsed.quarters)
        span == Max(0, parsed.end_year - parsed.start_year + 1)
    IN  [k \in 1..(span * n) |->
            <<parsed.start_year + ((k - 1) \div n),
              parsed.quarters[((k - 1) % n) + 1]>>]

IsPrefix(s, t) == Len(s) <= Len(t) /\ \A i \in 1..Len(s) : s[i] = t[i]

Range(s) == {s[i] : i \in 1..Len(s)}

\* The loops are over: the ancillary data is being loaded or the run has ended.
AfterLoops == mpc \in {"ancillary", "done", "crashed"}

\* The pairs attempted so far whose ZIP is a whole DB1B archive.
Extractable == {p \in Range(attempts) : Complete(disk[p]) /\ disk[p].kind = "db1b"}

====
